---- MODULE Spec2Model ----
(***************************************************************************)
(* A model of the reddit-viewer parser: the predicate-driven tree search   *)
(* (BreadthFirstSearch, DepthFirstSearch and the search criteria) and the  *)
(* feed extraction built on it (getFeedPosts, tryParseFeedPost, the three  *)
(* descendant lookups, classifyFeedPost and RedditParser.Feed).            *)
(*                                                                         *)
(* An html.Node is a record [Type, Data, Attr, Kids]; Kids is the          *)
(* FirstChild/NextSibling chain in order.  A *html.Node is the path of     *)
(* child indices that leads from the root of the document to the node.     *)
(* Strings are TLA+ strings; Go's byte-wise prefix, suffix and substring   *)
(* tests are computed on them with Len and SubSeq.                         *)
(***************************************************************************)
EXTENDS Integers, Sequences, FiniteSets, TLC

VARIABLES
    doc,        \* the parsed document: the tree every pointer points into
    \* --- one call of BreadthFirstSearch / DepthFirstSearch ---
    alg,        \* which of the two searches the call is
    criteria,   \* the call's match predicate, a function of the node
    recurseIf,  \* the call's descend predicate, a function of the node
    nodes,      \* the local slice `nodes`: the pending queue / stack
    status,     \* "running", "found" (node, nil) or "failed" (nil, ErrSearchFailed)
    found,      \* the node returned
    examined,   \* history: the nodes criteria() was evaluated on, in order
    \* --- one call of RedditParser.Feed / getFeedPosts ---
    pc,         \* where the call is
    siteTable,  \* getFeedPosts' local siteTable
    c,          \* getFeedPosts' loop cursor: index of child c of siteTable
    posts,      \* getFeedPosts' local posts
    srcs,       \* history: the child each element of posts was parsed from
    postsErr,   \* the error getFeedPosts returned ("running" until it returns)
    opts,       \* Feed's local opts
    feed,       \* what Feed returned: the Feed value, or the error
    \* --- one call of tryParseFeedPost, attribute by attribute ---
    n,          \* the node being parsed
    ai,         \* index of the attribute the range loop is at
    fields,     \* the locals id, op, subreddit, timestamp, score, ...
    post,       \* the *FeedPost returned
    outcome,    \* "running", "post", "ErrNotAPost", "ErrPostIsAd" or "panic"
    \* --- the request for the next page, in ProxyHandler.ServeHTTP ---
    request,    \* the request's URL (r.URL): Path and RawQuery
    options     \* the feedOpts Feed builds from parseFeedOptions(request)

vars == <<doc, alg, criteria, recurseIf, nodes, status, found, examined,
          pc, siteTable, c, posts, srcs, postsErr, opts, feed,
          n, ai, fields, post, outcome, request, options>>

searchVars == <<alg, criteria, recurseIf, nodes, status, found, examined>>
feedVars == <<pc, siteTable, c, posts, srcs, postsErr, opts, feed>>
postVars == <<n, ai, fields, post, outcome>>
serveVars == <<request, options>>

(***************************************************************************)
(* Bounds of the model.                                                    *)
(***************************************************************************)
\* nodes of a tree handed to a search
MaxNodes == 4
\* children of the posts container
MaxChildren == 2
\* attributes of a node handed to tryParseFeedPost
MaxAttrs == 2
\* pieces a post link is put together from
MaxChunks == 2

None == "nil"

\* the nil *html.Node: child indices start at 1, so no pointer into a tree is <<0>>
NilNode == <<0>>

(***************************************************************************)
(* html.Node                                                               *)
(***************************************************************************)
Node(type, data, attr, kids) ==
    [Type |-> type, Data |-> data, Attr |-> attr, Kids |-> kids]

Attribute(key, val) == [Key |-> key, Val |-> val]

Element(tag, attr, kids) == Node("ElementNode", tag, attr, kids)

Text(data) == Node("TextNode", data, <<>>, <<>>)

RECURSIVE NodeAt(_, _)
\* the node a pointer points to: follow the path from tree t
NodeAt(t, p) ==
    IF p = <<>> THEN t ELSE NodeAt(t.Kids[Head(p)], Tail(p))

RECURSIVE PathsOf(_)
\* every pointer into tree t
PathsOf(t) ==
    {<<>>} \cup UNION {{<<i>> \o q : q \in PathsOf(t.Kids[i])} : i \in DOMAIN t.Kids}

\* the loop `for c := node.FirstChild; c != nil; c = c.NextSibling`
Children(p) ==
    [i \in 1..Len(NodeAt(doc, p).Kids) |-> Append(p, i)]

IsPrefix(p, q) == Len(p) <= Len(q) /\ SubSeq(q, 1, Len(p)) = p

\* a is a proper ancestor of p
IsAncestor(a, p) == Len(a) < Len(p) /\ IsPrefix(a, p)

Ancestors(p) == {SubSeq(p, 1, k) : k \in 0..(Len(p) - 1)}

(***************************************************************************)
(* Strings                                                                 *)
(***************************************************************************)
\* strings.HasPrefix
HasPrefix(s, prefix) ==
    Len(s) >= Len(prefix) /\ SubSeq(s, 1, Len(prefix)) = prefix

\* strings.HasSuffix
HasSuffix(s, suffix) ==
    Len(s) >= Len(suffix) /\ SubSeq(s, Len(s) - Len(suffix) + 1, Len(s)) = suffix

\* strings.TrimPrefix
TrimPrefix(s, prefix) ==
    IF HasPrefix(s, prefix) THEN SubSeq(s, Len(prefix) + 1, Len(s)) ELSE s

\* regexp.MatchString("<lit>.*", s) and regexp.MatchString(".*<lit>.*", s):
\* the pattern is not anchored, so it matches when lit occurs anywhere in s
MatchLiteral(lit, s) ==
    \E i \in 1..(Len(s) - Len(lit) + 1) : SubSeq(s, i, i + Len(lit) - 1) = lit

(***************************************************************************)
(* Search criteria: a SearchCriteria is a function from node pointers to   *)
(* BOOLEAN                                                                 *)
(***************************************************************************)
\* the type *html.Node: a criterion is defined on every pointer
Pointers == Seq(Nat)

And(c1, c2) == [p \in Pointers |-> c1[p] /\ c2[p]]

Or(c1, c2) == [p \in Pointers |-> c1[p] \/ c2[p]]

Not(c1) == [p \in Pointers |-> ~c1[p]]

IsTag(name) ==
    [p \in Pointers |-> NodeAt(doc, p).Type = "ElementNode" /\ NodeAt(doc, p).Data = name]

HasAttribute(attributeKey) ==
    [p \in Pointers |-> \E i \in DOMAIN NodeAt(doc, p).Attr :
                        NodeAt(doc, p).Attr[i].Key = attributeKey]

HasAttributeWithValue(attributeKey, attributeValue) ==
    [p \in Pointers |-> \E i \in DOMAIN NodeAt(doc, p).Attr :
                        /\ NodeAt(doc, p).Attr[i].Key = attributeKey
                        /\ NodeAt(doc, p).Attr[i].Val = attributeValue]

\* the two patterns in use are "<lit>.*" and ".*<lit>.*"; lit is the literal
HasAttributeWithValueRegex(attributeKey, lit) ==
    [p \in Pointers |-> \E i \in DOMAIN NodeAt(doc, p).Attr :
                        /\ NodeAt(doc, p).Attr[i].Key = attributeKey
                        /\ MatchLiteral(lit, NodeAt(doc, p).Attr[i].Val)]

RecurseAlways == [p \in Pointers |-> TRUE]

RecurseNever == [p \in Pointers |-> FALSE]

RECURSIVE GetAttributeFrom(_, _)
GetAttributeFrom(attr, attributeKey) ==
    IF attr = <<>> THEN [val |-> "", ok |-> FALSE]
    ELSE IF Head(attr).Key = attributeKey THEN [val |-> Head(attr).Val, ok |-> TRUE]
    ELSE GetAttributeFrom(Tail(attr), attributeKey)

GetAttribute(p, attributeKey) == GetAttributeFrom(NodeAt(doc, p).Attr, attributeKey)

(***************************************************************************)
(* BreadthFirstSearch and DepthFirstSearch                                 *)
(***************************************************************************)
\* Expand without the document-node case
ExpandNoDocument(node, rec) ==
    IF rec[node] THEN Children(node) ELSE <<>>

\* Expand that ignores the descend predicate
ExpandAlways(node, rec) == Children(node)

\* Expand that never expands a document node
ExpandElementsOnly(node, rec) ==
    IF NodeAt(doc, node).Type # "DocumentNode" /\ rec[node] THEN Children(node) ELSE <<>>

\* Expand that schedules every child twice
ExpandTwice(node, rec) ==
    IF NodeAt(doc, node).Type = "DocumentNode" \/ rec[node]
    THEN Children(node) \o Children(node)
    ELSE <<>>

\* the children a non-matching node adds to the pending nodes
Expand(node, rec) ==
    IF NodeAt(doc, node).Type = "DocumentNode" \/ rec[node]
    THEN Children(node)
    ELSE <<>>

\* BFSIter that takes the node added last
BFSIterLIFO(q, crit, rec) ==
    LET node == q[Len(q)]
        rest == SubSeq(q, 1, Len(q) - 1)
    IN  IF crit[node]
        THEN [hit |-> TRUE, node |-> node, nodes |-> rest]
        ELSE [hit |-> FALSE, node |-> node, nodes |-> rest \o Expand(node, rec)]

\* one iteration of BreadthFirstSearch's loop on a non-empty queue
BFSIter(q, crit, rec) ==
    LET node == Head(q)
        rest == Tail(q)
    IN  IF crit[node]
        THEN [hit |-> TRUE, node |-> node, nodes |-> rest]
        ELSE [hit |-> FALSE, node |-> node, nodes |-> rest \o Expand(node, rec)]

\* one iteration of DepthFirstSearch's loop on a non-empty stack
DFSIter(q, crit, rec) ==
    LET node == q[Len(q)]
        rest == SubSeq(q, 1, Len(q) - 1)
    IN  IF crit[node]
        THEN [hit |-> TRUE, node |-> node, nodes |-> rest]
        ELSE [hit |-> FALSE, node |-> node, nodes |-> rest \o Expand(node, rec)]

RECURSIVE BFSLoop(_, _, _)
BFSLoop(q, crit, rec) ==
    IF q = <<>> THEN [node |-> NilNode, err |-> "ErrSearchFailed"]
    ELSE LET r == BFSIter(q, crit, rec)
         IN  IF r.hit THEN [node |-> r.node, err |-> None]
             ELSE BFSLoop(r.nodes, crit, rec)

RECURSIVE DFSLoop(_, _, _)
DFSLoop(q, crit, rec) ==
    IF q = <<>> THEN [node |-> NilNode, err |-> "ErrSearchFailed"]
    ELSE LET r == DFSIter(q, crit, rec)
         IN  IF r.hit THEN [node |-> r.node, err |-> None]
             ELSE DFSLoop(r.nodes, crit, rec)

BreadthFirstSearch(root, crit, rec) == BFSLoop(<<root>>, crit, rec)

DepthFirstSearch(root, crit, rec) == DFSLoop(<<root>>, crit, rec)

(***************************************************************************)
(* strconv                                                                 *)
(***************************************************************************)
Digits == {"0", "1", "2", "3", "4", "5", "6", "7", "8", "9"}

DigitVal(ch) ==
    CASE ch = "0" -> 0 [] ch = "1" -> 1 [] ch = "2" -> 2 [] ch = "3" -> 3
      [] ch = "4" -> 4 [] ch = "5" -> 5 [] ch = "6" -> 6 [] ch = "7" -> 7
      [] ch = "8" -> 8 [] ch = "9" -> 9

RECURSIVE DigitsValue(_)
DigitsValue(d) ==
    IF d = "" THEN 0
    ELSE 10 * DigitsValue(SubSeq(d, 1, Len(d) - 1)) + DigitVal(SubSeq(d, Len(d), Len(d)))

\* strconv.ParseInt(s, 10, 64) and strconv.Atoi(s): an optional sign and then
\* one or more decimal digits; anything else is a syntax error.  (The values
\* of the model are short, so the range error of a value beyond 64 bits, which
\* takes the same err != nil branch in the caller, does not arise.)
ParseInt(s) ==
    LET signed == Len(s) > 0 /\ SubSeq(s, 1, 1) \in {"+", "-"}
        neg == Len(s) > 0 /\ SubSeq(s, 1, 1) = "-"
        d == IF signed THEN SubSeq(s, 2, Len(s)) ELSE s
    IN  IF d = "" \/ \E i \in 1..Len(d) : SubSeq(d, i, i) \notin Digits
        THEN [val |-> 0, err |-> "ErrSyntax"]
        ELSE [val |-> IF neg THEN 0 - DigitsValue(d) ELSE DigitsValue(d), err |-> None]

\* strconv.ParseBool
ParseBool(s) ==
    IF s \in {"1", "t", "T", "TRUE", "true", "True"} THEN [val |-> TRUE, err |-> None]
    ELSE IF s \in {"0", "f", "F", "FALSE", "false", "False"} THEN [val |-> FALSE, err |-> None]
    ELSE [val |-> FALSE, err |-> "ErrSyntax"]

(***************************************************************************)
(* tryParseFeedPost                                                        *)
(***************************************************************************)
\* time.Time{}, and time.UnixMilli(ms).UTC()
ZeroTime == [isZero |-> TRUE, unixMilli |-> 0]

UnixMilli(ms) == [isZero |-> FALSE, unixMilli |-> ms]

\* the locals of tryParseFeedPost as declared: every one at its zero value
ZeroFields ==
    [id |-> "", op |-> "", subreddit |-> "", timestamp |-> ZeroTime, score |-> 0,
     commentCount |-> 0, postLink |-> "", isSpoiler |-> FALSE, isNSFW |-> FALSE]

\* AttrStep that gives up the record on a value that does not parse
AttrStepStrict(f, attr) ==
    CASE attr.Key = "class" ->
            IF attr.Val = "clearleft" \/ attr.Val = "nav-buttons"
            THEN [fields |-> f, err |-> "ErrNotAPost"]
            ELSE [fields |-> f, err |-> None]
      [] attr.Key = "data-fullname" ->
            [fields |-> [f EXCEPT !.id = attr.Val], err |-> None]
      [] attr.Key = "data-author" ->
            [fields |-> [f EXCEPT !.op = attr.Val], err |-> None]
      [] attr.Key = "data-subreddit" ->
            [fields |-> [f EXCEPT !.subreddit = attr.Val], err |-> None]
      [] attr.Key = "data-timestamp" ->
            LET r == ParseInt(attr.Val)
            IN  IF r.err # None THEN [fields |-> f, err |-> r.err]
                ELSE [fields |-> [f EXCEPT !.timestamp = UnixMilli(r.val)], err |-> None]
      [] attr.Key = "data-score" ->
            LET r == ParseInt(attr.Val)
            IN  IF r.err # None THEN [fields |-> f, err |-> r.err]
                ELSE [fields |-> [f EXCEPT !.score = r.val], err |-> None]
      [] attr.Key = "data-comments-count" ->
            LET r == ParseInt(attr.Val)
            IN  IF r.err # None THEN [fields |-> f, err |-> r.err]
                ELSE [fields |-> [f EXCEPT !.commentCount = r.val], err |-> None]
      [] attr.Key = "data-url" ->
            [fields |-> [f EXCEPT !.postLink = attr.Val], err |-> None]
      [] attr.Key = "data-spoiler" ->
            LET r == ParseBool(attr.Val)
            IN  IF r.err # None THEN [fields |-> f, err |-> r.err]
                ELSE [fields |-> [f EXCEPT !.isSpoiler = r.val], err |-> None]
      [] attr.Key = "data-nsfw" ->
            LET r == ParseBool(attr.Val)
            IN  IF r.err # None THEN [fields |-> f, err |-> r.err]
                ELSE [fields |-> [f EXCEPT !.isNSFW = r.val], err |-> None]
      [] attr.Key = "data-adserver-impression-id" ->
            [fields |-> f, err |-> "ErrPostIsAd"]
      [] OTHER -> [fields |-> f, err |-> None]

\* AttrStep that does not know the advertisement marker
AttrStepAdsKept(f, attr) ==
    CASE attr.Key = "class" ->
            IF attr.Val = "clearleft" \/ attr.Val = "nav-buttons"
            THEN [fields |-> f, err |-> "ErrNotAPost"]
            ELSE [fields |-> f, err |-> None]
      [] attr.Key = "data-fullname" ->
            [fields |-> [f EXCEPT !.id = attr.Val], err |-> None]
      [] attr.Key = "data-author" ->
            [fields |-> [f EXCEPT !.op = attr.Val], err |-> None]
      [] attr.Key = "data-subreddit" ->
            [fields |-> [f EXCEPT !.subreddit = attr.Val], err |-> None]
      [] attr.Key = "data-timestamp" ->
            LET r == ParseInt(attr.Val)
            IN  IF r.err # None THEN [fields |-> f, err |-> None]
                ELSE [fields |-> [f EXCEPT !.timestamp = UnixMilli(r.val)], err |-> None]
      [] attr.Key = "data-score" ->
            LET r == ParseInt(attr.Val)
            IN  IF r.err # None THEN [fields |-> f, err |-> None]
                ELSE [fields |-> [f EXCEPT !.score = r.val], err |-> None]
      [] attr.Key = "data-comments-count" ->
            LET r == ParseInt(attr.Val)
            IN  IF r.err # None THEN [fields |-> f, err |-> None]
                ELSE [fields |-> [f EXCEPT !.commentCount = r.val], err |-> None]
      [] attr.Key = "data-url" ->
            [fields |-> [f EXCEPT !.postLink = attr.Val], err |-> None]
      [] attr.Key = "data-spoiler" ->
            LET r == ParseBool(attr.Val)
            IN  IF r.err # None THEN [fields |-> f, err |-> None]
                ELSE [fields |-> [f EXCEPT !.isSpoiler = r.val], err |-> None]
      [] attr.Key = "data-nsfw" ->
            LET r == ParseBool(attr.Val)
            IN  IF r.err # None THEN [fields |-> f, err |-> None]
                ELSE [fields |-> [f EXCEPT !.isNSFW = r.val], err |-> None]
      [] attr.Key = "data-adserver-impression-id" ->
            [fields |-> f, err |-> None]
      [] OTHER -> [fields |-> f, err |-> None]

\* the body of the range loop for one attribute: the locals afterwards, and
\* the error the function returns from inside the loop (None: the loop goes on)
AttrStep(f, attr) ==
    CASE attr.Key = "class" ->
            IF attr.Val = "clearleft" \/ attr.Val = "nav-buttons"
            THEN [fields |-> f, err |-> "ErrNotAPost"]
            ELSE [fields |-> f, err |-> None]
      [] attr.Key = "data-fullname" ->
            [fields |-> [f EXCEPT !.id = attr.Val], err |-> None]
      [] attr.Key = "data-author" ->
            [fields |-> [f EXCEPT !.op = attr.Val], err |-> None]
      [] attr.Key = "data-subreddit" ->
            [fields |-> [f EXCEPT !.subreddit = attr.Val], err |-> None]
      [] attr.Key = "data-timestamp" ->
            LET r == ParseInt(attr.Val)
            IN  IF r.err # None THEN [fields |-> f, err |-> None]
                ELSE [fields |-> [f EXCEPT !.timestamp = UnixMilli(r.val)], err |-> None]
      [] attr.Key = "data-score" ->
            LET r == ParseInt(attr.Val)
            IN  IF r.err # None THEN [fields |-> f, err |-> None]
                ELSE [fields |-> [f EXCEPT !.score = r.val], err |-> None]
      [] attr.Key = "data-comments-count" ->
            LET r == ParseInt(attr.Val)
            IN  IF r.err # None THEN [fields |-> f, err |-> None]
                ELSE [fields |-> [f EXCEPT !.commentCount = r.val], err |-> None]
      [] attr.Key = "data-url" ->
            [fields |-> [f EXCEPT !.postLink = attr.Val], err |-> None]
      [] attr.Key = "data-spoiler" ->
            LET r == ParseBool(attr.Val)
            IN  IF r.err # None THEN [fields |-> f, err |-> None]
                ELSE [fields |-> [f EXCEPT !.isSpoiler = r.val], err |-> None]
      [] attr.Key = "data-nsfw" ->
            LET r == ParseBool(attr.Val)
            IN  IF r.err # None THEN [fields |-> f, err |-> None]
                ELSE [fields |-> [f EXCEPT !.isNSFW = r.val], err |-> None]
      [] attr.Key = "data-adserver-impression-id" ->
            [fields |-> f, err |-> "ErrPostIsAd"]
      [] OTHER -> [fields |-> f, err |-> None]

RECURSIVE AttrLoop(_, _)
\* the range loop over the attributes still to come
AttrLoop(f, attr) ==
    IF attr = <<>> THEN [fields |-> f, err |-> None]
    ELSE LET r == AttrStep(f, Head(attr))
         IN  IF r.err # None THEN r ELSE AttrLoop(r.fields, Tail(attr))

\* a lookup's result: the string, the error, and whether it panicked instead
Lookup(val, err) == [val |-> val, err |-> err, panic |-> FALSE]

LookupPanic == [val |-> "", err |-> None, panic |-> TRUE]

findTitle(p) ==
    LET r == DepthFirstSearch(p,
                 And(IsTag("a"), HasAttributeWithValueRegex("class", "title")),
                 RecurseAlways)
    IN  IF r.err # None THEN Lookup("", "ErrTitleNotFound")
        \* titleNode.FirstChild.Data: FirstChild is nil when the anchor is empty
        ELSE IF NodeAt(doc, r.node).Kids = <<>> THEN LookupPanic
        ELSE Lookup(NodeAt(doc, r.node).Kids[1].Data, None)

findThumbnailLink(p) ==
    LET thumbnailNode == BreadthFirstSearch(p,
                 And(IsTag("a"), HasAttributeWithValueRegex("class", "thumbnail")),
                 RecurseAlways)
    IN  IF thumbnailNode.err # None THEN Lookup("", "ErrThumbnailNotFound")
        ELSE LET imgNode == BreadthFirstSearch(thumbnailNode.node,
                                And(IsTag("img"), HasAttribute("src")),
                                RecurseAlways)
             IN  IF imgNode.err # None THEN Lookup("", "ErrThumbnailNotFound")
                 ELSE Lookup("https://" \o TrimPrefix(GetAttribute(imgNode.node, "src").val, "//"),
                             None)

findCommentsLink(p) ==
    LET buttonsBar == BreadthFirstSearch(p, IsTag("ul"), RecurseAlways)
    IN  IF buttonsBar.err # None THEN Lookup("", "ErrCommentsNotFound")
        ELSE LET commentsNode == BreadthFirstSearch(buttonsBar.node,
                        And(IsTag("li"), HasAttributeWithValue("class", "first")),
                        RecurseAlways)
             IN  IF commentsNode.err # None THEN Lookup("", "ErrCommentsNotFound")
                 ELSE LET commentsLink == BreadthFirstSearch(commentsNode.node,
                                And(IsTag("a"), HasAttributeWithValueRegex("class", "comments")),
                                RecurseAlways)
                      IN  IF commentsLink.err # None THEN Lookup("", "ErrCommentsNotFound")
                          ELSE IF GetAttribute(commentsLink.node, "href").ok
                               THEN Lookup(GetAttribute(commentsLink.node, "href").val, None)
                               ELSE Lookup("", "ErrCommentsNotFound")

\* classifyFeedPost with the image rule ahead of the text rule
classifyFeedPostImageFirst(PostLink) ==
    IF HasSuffix(PostLink, ".jpg") \/ HasSuffix(PostLink, ".png") THEN "FeedPostTypeImage"
    ELSE IF HasPrefix(PostLink, "/r/") THEN "FeedPostTypeText"
    ELSE IF HasPrefix(PostLink, "https://www.reddit.com/gallery/") THEN "FeedPostTypeGallery"
    ELSE IF \/ HasPrefix(PostLink, "https://v.reddit.com/")
            \/ HasPrefix(PostLink, "https://v.redd.it/") THEN "FeedPostTypeVideo"
    ELSE "FeedPostTypeLink"

classifyFeedPost(PostLink) ==
    IF HasPrefix(PostLink, "/r/") THEN "FeedPostTypeText"
    ELSE IF HasSuffix(PostLink, ".jpg") \/ HasSuffix(PostLink, ".png") THEN "FeedPostTypeImage"
    ELSE IF HasPrefix(PostLink, "https://www.reddit.com/gallery/") THEN "FeedPostTypeGallery"
    ELSE IF \/ HasPrefix(PostLink, "https://v.reddit.com/")
            \/ HasPrefix(PostLink, "https://v.redd.it/") THEN "FeedPostTypeVideo"
    ELSE "FeedPostTypeLink"

\* what tryParseFeedPost returns: (post, nil), (nil, err), or a panic
Parsed(p, err, panic) == [post |-> p, err |-> err, panic |-> panic]

\* the part of tryParseFeedPost after the range loop, from the locals f
BuildPost(p, f) ==
    LET title == findTitle(p)
        thumbnailLink == findThumbnailLink(p)
        commentsLink == findCommentsLink(p)
    IN  IF title.panic THEN Parsed(None, None, TRUE)
        ELSE Parsed([ID |-> f.id,
                     Type |-> classifyFeedPost(f.postLink),
                     Title |-> title.val,
                     OP |-> f.op,
                     Subreddit |-> f.subreddit,
                     Timestamp |-> f.timestamp,
                     Score |-> f.score,
                     CommentCount |-> f.commentCount,
                     ThumbnailLink |-> thumbnailLink.val,
                     PostLink |-> f.postLink,
                     CommentsLink |-> commentsLink.val,
                     IsSpoiler |-> f.isSpoiler,
                     IsNSFW |-> f.isNSFW],
                    None, FALSE)

tryParseFeedPost(p) ==
    LET r == AttrLoop(ZeroFields, NodeAt(doc, p).Attr)
    IN  IF r.err # None THEN Parsed(None, r.err, FALSE)
        ELSE BuildPost(p, r.fields)

(***************************************************************************)
(* The search, one loop iteration at a time                                *)
(***************************************************************************)
BreadthFirstSearchStep ==
    /\ alg = "BFS"
    /\ status = "running"
    /\ IF nodes = <<>>
       THEN /\ status' = "failed"
            /\ UNCHANGED <<nodes, found, examined>>
       ELSE LET r == BFSIter(nodes, criteria, recurseIf)
            IN  /\ nodes' = r.nodes
                /\ examined' = Append(examined, r.node)
                /\ status' = IF r.hit THEN "found" ELSE "running"
                /\ found' = IF r.hit THEN r.node ELSE found
    /\ UNCHANGED <<doc, alg, criteria, recurseIf>>
    /\ UNCHANGED <<feedVars, postVars, serveVars>>

DepthFirstSearchStep ==
    /\ alg = "DFS"
    /\ status = "running"
    /\ IF nodes = <<>>
       THEN /\ status' = "failed"
            /\ UNCHANGED <<nodes, found, examined>>
       ELSE LET r == DFSIter(nodes, criteria, recurseIf)
            IN  /\ nodes' = r.nodes
                /\ examined' = Append(examined, r.node)
                /\ status' = IF r.hit THEN "found" ELSE "running"
                /\ found' = IF r.hit THEN r.node ELSE found
    /\ UNCHANGED <<doc, alg, criteria, recurseIf>>
    /\ UNCHANGED <<feedVars, postVars, serveVars>>

(***************************************************************************)
(* The variables of a call that is not being made                          *)
(***************************************************************************)
FeedIdle ==
    /\ pc = "idle"
    /\ siteTable = NilNode
    /\ c = 0
    /\ posts = <<>>
    /\ srcs = <<>>
    /\ postsErr = "idle"
    /\ opts = None
    /\ feed = None

PostIdle ==
    /\ n = NilNode
    /\ ai = 0
    /\ fields = None
    /\ post = None
    /\ outcome = "idle"

ServeIdle ==
    /\ request = None
    /\ options = None

SearchIdle ==
    /\ alg = "idle"
    /\ criteria = <<>>
    /\ recurseIf = <<>>
    /\ nodes = <<>>
    /\ status = "idle"
    /\ found = NilNode
    /\ examined = <<>>

(***************************************************************************)
(* Trees handed to a search: every ordered tree of at most MaxNodes nodes, *)
(* the root a document node or an element                                  *)
(***************************************************************************)
RECURSIVE TreesOfSize(_)
RECURSIVE ForestsOfSize(_)
TreesOfSize(k) == {Element("div", <<>>, f) : f \in ForestsOfSize(k - 1)}

ForestsOfSize(k) ==
    IF k = 0 THEN {<<>>}
    ELSE UNION {{<<t>> \o f : t \in TreesOfSize(i), f \in ForestsOfSize(k - i)} :
                    i \in 1..k}

SearchTrees ==
    LET elems == UNION {TreesOfSize(k) : k \in 1..MaxNodes}
    IN  elems \cup {Node("DocumentNode", "", <<>>, t.Kids) : t \in elems}

InitSearch ==
    /\ doc \in SearchTrees
    /\ alg \in {"BFS", "DFS"}
    /\ criteria \in [PathsOf(doc) -> BOOLEAN]
    /\ recurseIf \in [PathsOf(doc) -> BOOLEAN]
    /\ nodes = << <<>> >>
    /\ status = "running"
    /\ found = NilNode
    /\ examined = <<>>
    /\ FeedIdle
    /\ PostIdle
    /\ ServeIdle

NextSearch ==
    \/ BreadthFirstSearchStep
    \/ DepthFirstSearchStep

SpecSearch == InitSearch /\ [][NextSearch]_vars

\* the loop of a search is sequential code that runs until it returns
SpecSearchFair == InitSearch /\ [][NextSearch]_vars /\ WF_vars(NextSearch)

(***************************************************************************)
(* tryParseFeedPost, one attribute at a time                               *)
(***************************************************************************)
\* one iteration of `for _, attr := range n.Attr`
ParseAttr ==
    /\ outcome = "running"
    /\ ai <= Len(NodeAt(doc, n).Attr)
    /\ LET r == AttrStep(fields, NodeAt(doc, n).Attr[ai])
       IN  /\ fields' = r.fields
           /\ IF r.err # None
              THEN outcome' = r.err /\ ai' = ai
              ELSE outcome' = outcome /\ ai' = ai + 1
    /\ UNCHANGED <<doc, n, post>>
    /\ UNCHANGED <<searchVars, feedVars, serveVars>>

\* the loop is over: the three lookups, the record, its classification
FindFields ==
    /\ outcome = "running"
    /\ ai > Len(NodeAt(doc, n).Attr)
    /\ LET r == BuildPost(n, fields)
       IN  IF r.panic
           THEN outcome' = "panic" /\ post' = post
           ELSE outcome' = "post" /\ post' = r.post
    /\ UNCHANGED <<doc, n, ai, fields>>
    /\ UNCHANGED <<searchVars, feedVars, serveVars>>

(***************************************************************************)
(* Nodes handed to tryParseFeedPost                                        *)
(***************************************************************************)
RECURSIVE SeqsUpTo(_, _)
\* the sequences of at most k elements of S
SeqsUpTo(S, k) ==
    IF k = 0 THEN {<<>>}
    ELSE SeqsUpTo(S, k - 1) \cup
         {Append(q, x) : q \in {r \in SeqsUpTo(S, k - 1) : Len(r) = k - 1}, x \in S}

\* attributes a candidate child may carry: the skip markers, well-formed and
\* malformed values of every field, and a key the parser does not know
PostAttrs ==
    {Attribute("class", "clearleft"),
     Attribute("class", "nav-buttons"),
     Attribute("class", "thing clearleft"),
     Attribute("data-adserver-impression-id", ""),
     Attribute("data-fullname", "t3_abc"),
     Attribute("data-author", "bob"),
     Attribute("data-subreddit", "comics"),
     Attribute("data-timestamp", "1700"),
     Attribute("data-timestamp", "17e2"),
     Attribute("data-score", "-5"),
     Attribute("data-score", ""),
     Attribute("data-comments-count", "7"),
     Attribute("data-comments-count", "-3"),
     Attribute("data-comments-count", "7k"),
     Attribute("data-url", "/r/comics/comments/abc"),
     Attribute("data-spoiler", "true"),
     Attribute("data-spoiler", "yes"),
     Attribute("data-nsfw", "T"),
     Attribute("data-nsfw", "nsfw"),
     Attribute("data-rank", "1")}

TitleAnchor(class, kids) == Element("a", <<Attribute("class", class)>>, kids)

ThumbnailAnchor(kids) ==
    Element("a", <<Attribute("class", "thumbnail invisible-when-pinned")>>, kids)

Img(src) == Element("img", <<Attribute("src", src)>>, <<>>)

ButtonsBar(class, anchorAttrs) ==
    Element("ul", <<Attribute("class", "flat-list buttons")>>,
            <<Element("li", <<Attribute("class", class)>>,
                      <<Element("a", anchorAttrs, <<>>)>>)>>)

\* the markup of a post as the site renders it
EntryKids ==
    <<ThumbnailAnchor(<<Img("//b.thumbs.redditmedia.com/x.jpg")>>),
      Element("div", <<Attribute("class", "entry unvoted")>>,
              <<Element("div", <<Attribute("class", "top-matter")>>,
                        <<Element("p", <<Attribute("class", "title")>>,
                                  <<TitleAnchor("title may-blank", <<Text("Hello")>>)>>),
                          ButtonsBar("first",
                                     <<Attribute("href", "/r/comics/comments/abc"),
                                       Attribute("class", "bylink comments")>>)>>)>>)>>

\* subtrees of a candidate child
PostKids ==
    {<<>>,
     EntryKids,
     \* a title anchor with no child node
     <<TitleAnchor("title", <<>>)>>,
     \* a thumbnail anchor with no image; a buttons bar whose anchor has no href
     <<ThumbnailAnchor(<<>>),
       ButtonsBar("first", <<Attribute("class", "comments")>>)>>}

PostNodes ==
    {Element("div", attr, kids) : attr \in SeqsUpTo(PostAttrs, MaxAttrs), kids \in PostKids}

PostStart ==
    /\ n = <<>>
    /\ ai = 1
    /\ fields = ZeroFields
    /\ post = None
    /\ outcome = "running"

InitPost ==
    /\ doc \in PostNodes
    /\ PostStart
    /\ SearchIdle
    /\ FeedIdle
    /\ ServeIdle

NextPost ==
    \/ ParseAttr
    \/ FindFields

SpecPost == InitPost /\ [][NextPost]_vars

(***************************************************************************)
(* constructURL                                                            *)
(***************************************************************************)
\* a *string: nil, or a pointer to val
NilString == [isNil |-> TRUE, val |-> ""]

StringPtr(v) == [isNil |-> FALSE, val |-> v]

\* SortMethod.URLString
URLString(sm) ==
    CASE sm = "SortMethodHot" -> "hot"
      [] sm = "SortMethodNew" -> "new"
      [] sm = "SortMethodRising" -> "rising"
      [] sm = "SortMethodControversial" -> "controversial"
      [] sm = "SortMethodTop" -> "top"
      [] sm = "SortMethodGilded" -> "gilded"
      [] OTHER -> ""

DigitChar(d) ==
    CASE d = 0 -> "0" [] d = 1 -> "1" [] d = 2 -> "2" [] d = 3 -> "3" [] d = 4 -> "4"
      [] d = 5 -> "5" [] d = 6 -> "6" [] d = 7 -> "7" [] d = 8 -> "8" [] d = 9 -> "9"

RECURSIVE FormatNat(_)
FormatNat(i) ==
    IF i < 10 THEN DigitChar(i) ELSE FormatNat(i \div 10) \o DigitChar(i % 10)

\* fmt.Sprintf("%d", i)
FormatInt(i) == IF i < 0 THEN "-" \o FormatNat(0 - i) ELSE FormatNat(i)

\* url.QueryEscape of one byte: letters, digits and -_.~ stay, a space becomes
\* "+", every other byte becomes %XX
EscapeChar(ch) ==
    CASE ch = " " -> "+"
      [] ch = "%" -> "%25"
      [] ch = "&" -> "%26"
      [] ch = "/" -> "%2F"
      [] ch = "=" -> "%3D"
      [] ch = "?" -> "%3F"
      [] OTHER -> ch

RECURSIVE QueryEscape(_)
QueryEscape(str) ==
    IF str = "" THEN ""
    ELSE EscapeChar(SubSeq(str, 1, 1)) \o QueryEscape(SubSeq(str, 2, Len(str)))

RECURSIVE JoinAmp(_)
JoinAmp(parts) ==
    IF parts = <<>> THEN ""
    ELSE IF Len(parts) = 1 THEN parts[1]
    ELSE parts[1] \o "&" \o JoinAmp(Tail(parts))

\* url.Values.Encode of the values constructURL sets: sorted by key
EncodeValues(o) ==
    JoinAmp((IF ~o.LastPostID.isNil
             THEN <<"after=" \o QueryEscape(o.LastPostID.val)>> ELSE <<>>)
         \o (IF o.Count # 0
             THEN <<"count=" \o QueryEscape(FormatInt(o.Count))>> ELSE <<>>)
         \o (IF o.SortMethod # "SortMethodDefault"
             THEN <<"sort=" \o QueryEscape(URLString(o.SortMethod))>> ELSE <<>>))

constructURL(o) ==
    LET getURL == IF ~o.Subreddit.isNil
                  THEN o.BaseURL \o "/r/" \o o.Subreddit.val
                  ELSE o.BaseURL
        v == EncodeValues(o)
    IN  IF v # "" THEN getURL \o "/?" \o v ELSE getURL

(***************************************************************************)
(* RedditParser.Feed and getFeedPosts                                      *)
(***************************************************************************)
\* what Feed returns: (&Feed{Posts, NextPageLink}, nil) or (nil, err)
FeedValue(p, link) == [Posts |-> p, NextPageLink |-> link, err |-> None]

FeedError(err) == [Posts |-> <<>>, NextPageLink |-> "", err |-> err]

\* getSiteTable that also looks for the container in the head
getSiteTableAnywhere(root) ==
    LET r == BreadthFirstSearch(root,
                 And(IsTag("div"), HasAttributeWithValue("id", "siteTable")),
                 RecurseAlways)
    IN  IF r.err # None
        THEN [node |-> NilNode, err |-> "site table not found: " \o r.err]
        ELSE [node |-> r.node, err |-> None]

getSiteTable(root) ==
    LET r == BreadthFirstSearch(root,
                 And(IsTag("div"), HasAttributeWithValue("id", "siteTable")),
                 Not(IsTag("head")))
    IN  IF r.err # None
        THEN [node |-> NilNode, err |-> "site table not found: " \o r.err]
        ELSE [node |-> r.node, err |-> None]

\* rp.getFeedDocument: the request fails, or the response parses into doc
GetFeedDocument ==
    /\ pc = "getFeedDocument"
    /\ \/ /\ pc' = "done"
          /\ feed' = FeedError("HTTPError")
       \/ /\ pc' = "getSiteTable"
          /\ feed' = feed
    /\ UNCHANGED <<doc, siteTable, c, posts, srcs, postsErr, opts>>
    /\ UNCHANGED <<searchVars, postVars, serveVars>>

\* getFeedPosts, step 1; on an error getFeedPosts and Feed return it
GetSiteTable ==
    /\ pc = "getSiteTable"
    /\ LET r == getSiteTable(<<>>)
       IN  IF r.err # None
           THEN /\ pc' = "done"
                /\ postsErr' = r.err
                /\ feed' = FeedError(r.err)
                /\ UNCHANGED <<siteTable, c>>
           ELSE /\ pc' = "loop"
                /\ siteTable' = r.node
                /\ c' = 1
                /\ UNCHANGED <<postsErr, feed>>
    /\ UNCHANGED <<doc, posts, srcs, opts>>
    /\ UNCHANGED <<searchVars, postVars, serveVars>>

\* the loop iteration without the test of the child's type
ParseChildOfAnyType ==
    /\ pc = "loop"
    /\ c <= Len(NodeAt(doc, siteTable).Kids)
    /\ LET child == Children(siteTable)[c]
           r == tryParseFeedPost(child)
       IN  IF r.panic
           THEN /\ pc' = "panic"
                /\ UNCHANGED <<c, posts, srcs>>
           ELSE /\ pc' = pc
                /\ c' = c + 1
                /\ posts' = IF r.err = None THEN Append(posts, r.post) ELSE posts
                /\ srcs' = IF r.err = None THEN Append(srcs, child) ELSE srcs
    /\ UNCHANGED <<doc, siteTable, postsErr, opts, feed>>
    /\ UNCHANGED <<searchVars, postVars, serveVars>>

\* getFeedPosts, step 2: one iteration of the loop over siteTable's children
ParseChild ==
    /\ pc = "loop"
    /\ c <= Len(NodeAt(doc, siteTable).Kids)
    /\ LET child == Children(siteTable)[c]
       IN  IF NodeAt(doc, child).Type # "ElementNode"
           THEN /\ c' = c + 1
                /\ UNCHANGED <<pc, posts, srcs>>
           ELSE LET r == tryParseFeedPost(child)
                IN  IF r.panic
                    THEN /\ pc' = "panic"
                         /\ UNCHANGED <<c, posts, srcs>>
                    ELSE /\ pc' = pc
                         /\ c' = c + 1
                         /\ posts' = IF r.err = None THEN Append(posts, r.post) ELSE posts
                         /\ srcs' = IF r.err = None THEN Append(srcs, child) ELSE srcs
    /\ UNCHANGED <<doc, siteTable, postsErr, opts, feed>>
    /\ UNCHANGED <<searchVars, postVars, serveVars>>

\* getFeedPosts: `return posts, nil`
ReturnPosts ==
    /\ pc = "loop"
    /\ c > Len(NodeAt(doc, siteTable).Kids)
    /\ pc' = "nextPageLink"
    /\ postsErr' = None
    /\ UNCHANGED <<doc, siteTable, c, posts, srcs, opts, feed>>
    /\ UNCHANGED <<searchVars, postVars, serveVars>>

\* Feed: the next page link from the last post, and the Feed value;
\* posts[len(posts)-1] of an empty posts is an index out of range
NextPageLink ==
    /\ pc = "nextPageLink"
    /\ IF Len(posts) = 0
       THEN /\ pc' = "panic"
            /\ UNCHANGED <<opts, feed>>
       ELSE /\ pc' = "done"
            /\ opts' = [opts EXCEPT !.BaseURL = "",
                                    !.LastPostID = StringPtr(posts[Len(posts)].ID)]
            /\ feed' = FeedValue(posts, constructURL(opts'))
    /\ UNCHANGED <<doc, siteTable, c, posts, srcs, postsErr>>
    /\ UNCHANGED <<searchVars, postVars, serveVars>>

(***************************************************************************)
(* Documents handed to Feed: a posts container with at most MaxChildren    *)
(* children, placed in a page                                              *)
(***************************************************************************)
Div(attr, kids) == Element("div", attr, kids)

FeedChildren ==
    {Text("\n"),
     Node("CommentNode", " promoted ", <<>>, <<>>),
     Div(<<Attribute("class", "clearleft")>>, <<>>),
     Div(<<Attribute("class", "nav-buttons")>>,
         <<Div(<<Attribute("data-fullname", "t3_nav")>>, <<>>)>>),
     \* an advertisement: the marker after other attributes, one of them malformed
     Div(<<Attribute("data-fullname", "t3_ad1"), Attribute("data-score", "1k"),
           Attribute("data-adserver-impression-id", "42")>>,
         <<TitleAnchor("title", <<>>)>>),
     \* an advertisement: the marker first
     Div(<<Attribute("data-adserver-impression-id", ""),
           Attribute("data-fullname", "t3_ad2"), Attribute("class", "thing promoted")>>,
         EntryKids),
     Div(<<Attribute("class", "thing link"), Attribute("data-fullname", "t3_abc"),
           Attribute("data-timestamp", "1700"),
           Attribute("data-url", "https://example.com/x.png")>>,
         EntryKids),
     Div(<<Attribute("data-fullname", "t3_def"),
           Attribute("data-url", "/r/foo/comments/def")>>,
         <<>>),
     \* a post whose title anchor has no child node
     Div(<<Attribute("data-fullname", "t3_ghi")>>, <<TitleAnchor("title", <<>>)>>),
     \* a post with another one nested in it
     Div(<<Attribute("data-fullname", "t3 j&k")>>,
         <<Div(<<Attribute("data-fullname", "t3_in")>>, <<>>)>>),
     Element("span", <<>>, <<Text("x")>>)}

Container(kids) ==
    Div(<<Attribute("id", "siteTable"), Attribute("class", "sitetable linklisting")>>, kids)

Document(kids) == Node("DocumentNode", "", <<>>, kids)

Html(head, body) ==
    Element("html", <<>>, <<Element("head", <<>>, head), Element("body", <<>>, body)>>)

Pages(kids) ==
    {\* the container itself
     Container(kids),
     \* a page with the container in its body
     Document(<<Html(<<Element("title", <<>>, <<Text("reddit")>>)>>,
                     <<Div(<<Attribute("class", "content")>>, <<Container(kids)>>)>>)>>),
     \* the only container is in the head
     Document(<<Html(<<Container(kids)>>, <<>>)>>),
     \* a container in the head and one in the body
     Document(<<Html(<<Container(<<Div(<<Attribute("data-fullname", "t3_head")>>, <<>>)>>)>>,
                     <<Container(kids)>>)>>),
     \* no div has the id: a span has it, a div has another one
     Document(<<Html(<<>>,
                     <<Element("span", <<Attribute("id", "siteTable")>>, kids),
                       Div(<<Attribute("id", "sitetable")>>, kids)>>)>>),
     \* two containers in the body, the first in document order the deeper one
     Document(<<Html(<<>>,
                     <<Div(<<>>, <<Container(<<Div(<<Attribute("data-fullname", "t3_deep")>>,
                                                   <<>>)>>)>>),
                       Container(kids)>>)>>),
     \* the root is a head element
     Element("head", <<>>, <<Container(kids)>>)}

FeedDocs == UNION {Pages(kids) : kids \in SeqsUpTo(FeedChildren, MaxChildren)}

\* opts after Feed has applied the caller's options
FeedOpts ==
    {[BaseURL |-> "http://old.reddit.com", Subreddit |-> o[1], SortMethod |-> o[2],
      Count |-> o[3], LastPostID |-> NilString] :
        o \in {<<NilString, "SortMethodDefault", 0>>,
               <<StringPtr("comics"), "SortMethodTop", 25>>}}

InitFeed ==
    /\ doc \in FeedDocs
    /\ opts \in FeedOpts
    /\ pc = "getFeedDocument"
    /\ siteTable = NilNode
    /\ c = 0
    /\ posts = <<>>
    /\ srcs = <<>>
    /\ postsErr = "running"
    /\ feed = None
    /\ SearchIdle
    /\ PostIdle
    /\ ServeIdle

NextFeed ==
    \/ GetFeedDocument
    \/ GetSiteTable
    \/ ParseChild
    \/ ReturnPosts
    \/ NextPageLink

SpecFeed == InitFeed /\ [][NextFeed]_vars

(***************************************************************************)
(* Post links handed to classifyFeedPost, on nodes handed to               *)
(* tryParseFeedPost: every link of at most MaxChunks pieces                *)
(***************************************************************************)
LinkChunks ==
    {"/r/", "x", ".jpg", ".png", "https://", "https://www.reddit.com/gallery/",
     "https://v.reddit.com/", "https://v.redd.it/"}

RECURSIVE Links(_)
Links(k) ==
    IF k = 0 THEN {""}
    ELSE Links(k - 1) \cup {u \o ch : u \in Links(k - 1), ch \in LinkChunks}

\* the attributes of a post with link u: the link alone, among other fields,
\* and after another data-url
LinkAttrs(u) ==
    {<<Attribute("data-url", u)>>,
     <<Attribute("class", "thing"), Attribute("data-fullname", "t3_abc"),
       Attribute("data-score", "-5"), Attribute("data-url", u),
       Attribute("data-nsfw", "T")>>,
     <<Attribute("data-url", "/r/a.png"), Attribute("data-url", u)>>}

LinkNodes ==
    {Div(attr, kids) : attr \in UNION {LinkAttrs(u) : u \in Links(MaxChunks)},
                       kids \in {<<>>, EntryKids}}

InitClassify ==
    /\ doc \in LinkNodes
    /\ PostStart
    /\ SearchIdle
    /\ FeedIdle
    /\ ServeIdle

SpecClassify == InitClassify /\ [][NextPost]_vars

(***************************************************************************)
(* Thumbnails handed to findThumbnailLink, on nodes handed to              *)
(* tryParseFeedPost                                                        *)
(***************************************************************************)
\* values of an <img>'s src: protocol-relative, absolute, rooted, relative
ThumbnailSrcs ==
    {scheme \o host \o path :
        scheme \in {"//", "https://", "http://", "/", ""},
        host \in {"b.thumbs.redditmedia.com", "i.redd.it"},
        path \in {"/x.jpg", "//y.png", ""}}

ThumbnailKids ==
    {<<>>,
     <<ThumbnailAnchor(<<>>)>>,
     \* an image without a src
     <<ThumbnailAnchor(<<Element("img", <<Attribute("alt", "")>>, <<>>)>>)>>,
     \* the class is on an element that is no anchor
     <<Div(<<Attribute("class", "thumbnail")>>, <<Img("//i.redd.it/x.jpg")>>)>>}
    \cup {<<ThumbnailAnchor(<<Img(src)>>)>> : src \in ThumbnailSrcs}
    \cup {<<Div(<<>>, <<ThumbnailAnchor(<<Element("span", <<>>, <<Img(src)>>)>>)>>)>> :
             src \in ThumbnailSrcs}

ThumbnailNodes ==
    {Div(attr, kids) : attr \in {<<>>, <<Attribute("data-fullname", "t3_abc")>>},
                       kids \in ThumbnailKids}

InitThumbnail ==
    /\ doc \in ThumbnailNodes
    /\ PostStart
    /\ SearchIdle
    /\ FeedIdle
    /\ ServeIdle

SpecThumbnail == InitThumbnail /\ [][NextPost]_vars

(***************************************************************************)
(* The request for the next page: ProxyHandler.ServeHTTP, parseFeedOptions *)
(* and the options Feed builds from them                                   *)
(***************************************************************************)
\* strings.IndexByte, counted from 1; 0 when ch is not in str
IndexByte(str, ch) ==
    IF \E i \in 1..Len(str) : SubSeq(str, i, i) = ch
    THEN CHOOSE i \in 1..Len(str) :
             /\ SubSeq(str, i, i) = ch
             /\ \A j \in 1..(i - 1) : SubSeq(str, j, j) # ch
    ELSE 0

\* strings.Cut(str, ch)
Cut(str, ch) ==
    LET i == IndexByte(str, ch)
    IN  IF i = 0 THEN [before |-> str, after |-> "", found |-> FALSE]
        ELSE [before |-> SubSeq(str, 1, i - 1),
              after |-> SubSeq(str, i + 1, Len(str)),
              found |-> TRUE]

\* strings.Split(str, ch)
RECURSIVE Split(_, _)
Split(str, ch) ==
    LET cut == Cut(str, ch)
    IN  IF cut.found THEN <<cut.before>> \o Split(cut.after, ch) ELSE <<str>>

TrimSuffix(str, suffix) ==
    IF HasSuffix(str, suffix) THEN SubSeq(str, 1, Len(str) - Len(suffix)) ELSE str

\* the byte a %XX escape stands for, of the bytes EscapeChar escapes
UnescapeHex(xx) ==
    CASE xx = "25" -> "%"
      [] xx = "26" -> "&"
      [] xx = "2F" -> "/"
      [] xx = "3D" -> "="
      [] xx = "3F" -> "?"
      [] OTHER -> None

\* url.QueryUnescape: "+" is a space, %XX a byte, any other "%" an error
RECURSIVE QueryUnescape(_)
QueryUnescape(str) ==
    IF str = "" THEN [val |-> "", err |-> None]
    ELSE LET ch == SubSeq(str, 1, 1)
         IN  IF ch = "%"
             THEN IF Len(str) < 3 \/ UnescapeHex(SubSeq(str, 2, 3)) = None
                  THEN [val |-> "", err |-> "EscapeError"]
                  ELSE LET rest == QueryUnescape(SubSeq(str, 4, Len(str)))
                       IN  [val |-> UnescapeHex(SubSeq(str, 2, 3)) \o rest.val,
                            err |-> rest.err]
             ELSE LET rest == QueryUnescape(SubSeq(str, 2, Len(str)))
                  IN  [val |-> (IF ch = "+" THEN " " ELSE ch) \o rest.val,
                       err |-> rest.err]

\* r.URL.Query().Get(key): the first value url.ParseQuery keeps for key, ""
\* when there is none; a pair that does not unescape is dropped
RECURSIVE QueryGet(_, _)
QueryGet(query, key) ==
    IF query = "" THEN ""
    ELSE LET pair == Cut(query, "&")
             kv == Cut(pair.before, "=")
             k == QueryUnescape(kv.before)
             v == QueryUnescape(kv.after)
         IN  IF /\ pair.before # ""
                /\ IndexByte(pair.before, ";") = 0
                /\ k.err = None /\ v.err = None
                /\ k.val = key
             THEN v.val
             ELSE QueryGet(pair.after, key)

\* the URL of the request: the path up to the first "?", the query after it
ParseRequestURI(link) ==
    LET cut == Cut(link, "?")
    IN  [Path |-> cut.before, RawQuery |-> cut.after]

\* ServeHTTP: a trailing ".json" is cut off the path, or else off the query
TrimJSON(u) ==
    IF HasSuffix(u.Path, ".json") THEN [u EXCEPT !.Path = TrimSuffix(u.Path, ".json")]
    ELSE IF HasSuffix(u.RawQuery, ".json")
         THEN [u EXCEPT !.RawQuery = TrimSuffix(u.RawQuery, ".json")]
         ELSE u

SortMethods ==
    {"SortMethodDefault", "SortMethodHot", "SortMethodNew", "SortMethodRising",
     "SortMethodControversial", "SortMethodTop", "SortMethodGilded"}

SortMethodFromString(str) ==
    CASE str = "hot" -> [val |-> "SortMethodHot", err |-> None]
      [] str = "new" -> [val |-> "SortMethodNew", err |-> None]
      [] str = "rising" -> [val |-> "SortMethodRising", err |-> None]
      [] str = "controversial" -> [val |-> "SortMethodControversial", err |-> None]
      [] str = "top" -> [val |-> "SortMethodTop", err |-> None]
      [] str = "gilded" -> [val |-> "SortMethodGilded", err |-> None]
      [] OTHER -> [val |-> "SortMethod(-1)", err |-> "is not a sort method"]

FeedOption(name, arg) == [name |-> name, arg |-> arg]

\* parseFeedOptions, without the headers
parseFeedOptions(u) ==
    LET pieces == Split(u.Path, "/")
        sm == SortMethodFromString(pieces[Len(pieces)])
        lastPostID == QueryGet(u.RawQuery, "after")
    IN  (IF Len(pieces) >= 3 /\ pieces[2] = "r"
         THEN <<FeedOption("WithSubreddit", pieces[3])>> ELSE <<>>)
     \o (IF Len(pieces) > 0 /\ sm.err = None
         THEN <<FeedOption("WithSortMethod", sm.val)>> ELSE <<>>)
     \o (IF lastPostID # ""
         THEN <<FeedOption("WithLastPostID", lastPostID)>> ELSE <<>>)

\* opt(opts) for one option: the options changed, or the option's error
ApplyOption(o, opt) ==
    CASE opt.name = "WithSubreddit" ->
             [opts |-> [o EXCEPT !.Subreddit = StringPtr(opt.arg)], err |-> None]
      [] opt.name = "WithSortMethod" ->
             IF opt.arg \notin SortMethods
             THEN [opts |-> o, err |-> "sort method not recognized"]
             ELSE [opts |-> [o EXCEPT !.SortMethod = opt.arg], err |-> None]
      [] opt.name = "WithLastPostID" ->
             [opts |-> [o EXCEPT !.LastPostID = StringPtr(opt.arg)], err |-> None]

\* Feed's loop over the options, from the defaults
RECURSIVE ApplyOptions(_, _)
ApplyOptions(o, opt) ==
    IF opt = <<>> THEN [opts |-> o, err |-> None]
    ELSE LET first == ApplyOption(o, Head(opt))
         IN  IF first.err # None THEN first ELSE ApplyOptions(first.opts, Tail(opt))

DefaultOpts ==
    [BaseURL |-> "http://old.reddit.com", Subreddit |-> NilString,
     SortMethod |-> "SortMethodDefault", Count |-> 0, LastPostID |-> NilString]

\* the next page link of a returned Feed is requested: ServeHTTP up to the
\* point where Feed has processed the options
ServeHTTP ==
    /\ pc = "done"
    /\ feed.err = None
    /\ LET u == TrimJSON(ParseRequestURI(feed.NextPageLink))
       IN  /\ request' = u
           /\ options' = ApplyOptions(DefaultOpts, parseFeedOptions(u))
    /\ pc' = "nextRequest"
    /\ UNCHANGED <<doc, siteTable, c, posts, srcs, postsErr, opts, feed>>
    /\ UNCHANGED <<searchVars, postVars>>

\* IDs of posts: data-fullname values
PostIDs == {"t3_abc", "t3 j&k", "t3_x.json", ""}

NextPageChildren == {Div(<<Attribute("data-fullname", id)>>, <<>>) : id \in PostIDs}

\* opts when Feed has fetched a page
NextPageOpts ==
    [BaseURL : {"http://old.reddit.com"},
     Subreddit : {NilString, StringPtr("comics"), StringPtr("")},
     SortMethod : SortMethods,
     Count : {0, 25},
     LastPostID : {NilString, StringPtr("t3_prev")}]

\* Feed when getFeedPosts has returned the posts of a container
InitNextPage ==
    /\ doc \in {Container(kids) : kids \in SeqsUpTo(NextPageChildren, MaxChildren)}
    /\ opts \in NextPageOpts
    /\ pc = "nextPageLink"
    /\ siteTable = <<>>
    /\ c = Len(doc.Kids) + 1
    /\ posts = [i \in 1..Len(doc.Kids) |-> tryParseFeedPost(<<i>>).post]
    /\ srcs = [i \in 1..Len(doc.Kids) |-> <<i>>]
    /\ postsErr = None
    /\ feed = None
    /\ SearchIdle
    /\ PostIdle
    /\ ServeIdle

NextNextPage ==
    \/ NextPageLink
    \/ ServeHTTP

SpecNextPage == InitNextPage /\ [][NextNextPage]_vars

(***************************************************************************)
(* Claims about the search                                                 *)
(***************************************************************************)
\* the pointers into the document
Ptrs == PathsOf(doc)

\* every proper ancestor of p is a document node or satisfies the descend
\* predicate: the search can get from the root down to p
Reachable(p) ==
    \A a \in Ancestors(p) : NodeAt(doc, a).Type = "DocumentNode" \/ recurseIf[a]

\* p comes before q in left-to-right pre-order
PreOrderLess(p, q) ==
    \/ IsAncestor(p, q)
    \/ \E k \in 1..Len(p) :
          /\ k <= Len(q)
          /\ SubSeq(p, 1, k - 1) = SubSeq(q, 1, k - 1)
          /\ p[k] < q[k]

\* a visited node that is no document node and satisfies neither predicate
Pruned(p) ==
    /\ NodeAt(doc, p).Type # "DocumentNode"
    /\ ~criteria[p]
    /\ ~recurseIf[p]

Examined == {examined[i] : i \in DOMAIN examined}

Pending == {nodes[i] : i \in DOMAIN nodes}

\* C1: either search fails (nil, ErrSearchFailed) only when no node that
\* satisfies the match predicate is reachable from the root through ancestors
\* that are document nodes or satisfy the descend predicate, and otherwise
\* returns a node that satisfies the match predicate and is reachable so.
C1_SearchesAgree ==
    /\ status = "failed" =>
          /\ found = NilNode
          /\ ~\E p \in Ptrs : criteria[p] /\ Reachable(p)
    /\ status = "found" =>
          /\ found \in Ptrs
          /\ criteria[found]
          /\ Reachable(found)

\* a search failed although the tree holds a matching node: every match sits
\* below a pruned node
C1_Witness ==
    /\ status = "failed"
    /\ \E p \in Ptrs : criteria[p]

\* C2: once a node that is no document node and satisfies neither predicate
\* has been visited, none of its descendants is pending, has been evaluated
\* by the match predicate, or is returned.
C2_PruningLaw ==
    \A v \in Examined :
        Pruned(v) =>
            \A d \in Ptrs :
                IsAncestor(v, d) =>
                    /\ d \notin Pending
                    /\ d \notin Examined
                    /\ found # d

\* the search is over, and it visited a pruned node with a matching descendant
C2_Witness ==
    /\ status \in {"found", "failed"}
    /\ \E v \in Examined :
          /\ Pruned(v)
          /\ \E d \in Ptrs : IsAncestor(v, d) /\ criteria[d]

\* C3: the node DepthFirstSearch returns is the first reachable match in
\* left-to-right pre-order.
C3_DepthFirstPreOrder ==
    (alg = "DFS" /\ status = "found") =>
        \A p \in Ptrs :
            (criteria[p] /\ Reachable(p)) => ~PreOrderLess(p, found)

\* p is scheduled for a visit, or has been visited
Scheduled(p) == p \in Pending \/ p \in Examined

IsDocument(p) == NodeAt(doc, p).Type = "DocumentNode"

ChildrenOf(p) == {Children(p)[i] : i \in DOMAIN Children(p)}

\* C13: a visited document node that does not match has every child
\* scheduled, whatever the descend predicate says of it; a child of a node
\* that is no document node is scheduled only when the descend predicate is
\* true for that node.
C13_DocumentAlwaysExpanded ==
    /\ \A v \in Examined :
          (IsDocument(v) /\ ~criteria[v]) => \A ch \in ChildrenOf(v) : Scheduled(ch)
    /\ \A v \in Ptrs :
          (~IsDocument(v) /\ \E ch \in ChildrenOf(v) : Scheduled(ch)) => recurseIf[v]

\* a document node for which the descend predicate is false was expanded,
\* and an element for which it is false was visited and not expanded
C13_Witness ==
    /\ status \in {"found", "failed"}
    /\ \E v \in Examined :
          /\ IsDocument(v) /\ ~recurseIf[v] /\ ~criteria[v]
          /\ ChildrenOf(v) # {}
          /\ ChildrenOf(v) \subseteq Examined \cup Pending
    /\ \E v \in Examined :
          /\ ~IsDocument(v) /\ ~recurseIf[v] /\ ~criteria[v]
          /\ ChildrenOf(v) # {}
          /\ ChildrenOf(v) \cap (Examined \cup Pending) = {}

\* p comes before q in level order: it is less deep, or as deep and to the left
LevelOrderLess(p, q) ==
    \/ Len(p) < Len(q)
    \/ Len(p) = Len(q) /\ PreOrderLess(p, q)

\* C14: BreadthFirstSearch evaluates the root first and the nodes in level
\* order; the node it returns is the last one evaluated, and no reachable
\* match is less deep, or as deep and to the left of it.
C14_BreadthFirstLevelOrder ==
    alg = "BFS" =>
        /\ examined # <<>> => examined[1] = <<>>
        /\ \A i, j \in DOMAIN examined :
              i < j => LevelOrderLess(examined[i], examined[j])
        /\ status = "found" =>
              /\ found = examined[Len(examined)]
              /\ \A i \in 1..(Len(examined) - 1) : ~criteria[examined[i]]
              /\ \A p \in Ptrs :
                    (criteria[p] /\ Reachable(p)) => ~LevelOrderLess(p, found)

\* BreadthFirstSearch returned a node although a deeper reachable match comes
\* before it in pre-order
C14_Witness ==
    /\ alg = "BFS"
    /\ status = "found"
    /\ \E p \in Ptrs :
          criteria[p] /\ Reachable(p) /\ Len(p) > Len(found) /\ PreOrderLess(p, found)

\* the search has returned: a node, or (nil, ErrSearchFailed)
Returned ==
    \/ status = "found" /\ found \in Ptrs
    \/ status = "failed" /\ found = NilNode

\* C15: either search returns, no node is evaluated by the match predicate
\* more than once during the call, and the tree is left as it was.
C15_TerminatesVisitingOnce ==
    /\ <>Returned
    /\ [](\A i, j \in DOMAIN examined : examined[i] = examined[j] => i = j)
    /\ [][doc' = doc]_vars

\* a search failed after it evaluated every node of a tree of MaxNodes nodes
C15_Witness ==
    /\ status = "failed"
    /\ Cardinality(Ptrs) = MaxNodes
    /\ Examined = Ptrs
    /\ Len(examined) = MaxNodes

(***************************************************************************)
(* Claims about the feed extraction                                        *)
(***************************************************************************)
Attrs(p) == NodeAt(doc, p).Attr

IsElement(p, tag) == NodeAt(doc, p).Type = "ElementNode" /\ NodeAt(doc, p).Data = tag

\* p is a <div> with an attribute id="siteTable"
IsSiteTableDiv(p) ==
    /\ IsElement(p, "div")
    /\ \E i \in DOMAIN Attrs(p) : Attrs(p)[i] = Attribute("id", "siteTable")

\* a container that no head element lies above
ContainerOutsideHead ==
    \E p \in Ptrs : IsSiteTableDiv(p) /\ \A a \in Ancestors(p) : ~IsElement(a, "head")

\* p carries the advertisement marker or is one of the two padding elements
HasSkipMarker(p) ==
    \E i \in DOMAIN Attrs(p) :
        \/ Attrs(p)[i].Key = "data-adserver-impression-id"
        \/ Attrs(p)[i] = Attribute("class", "clearleft")
        \/ Attrs(p)[i] = Attribute("class", "nav-buttons")

\* getFeedPosts has returned, with this error
PostsReturned == postsErr \notin {"idle", "running"}

\* C4: getFeedPosts returns an error, which wraps ErrSearchFailed and comes
\* with no posts, exactly when no <div id="siteTable"> lies outside every
\* head element; the container it uses never lies in a head.
C4_ContainerNotFound ==
    /\ PostsReturned =>
          /\ postsErr # None <=> ~ContainerOutsideHead
          /\ postsErr # None =>
                /\ HasSuffix(postsErr, "ErrSearchFailed")
                /\ posts = <<>>
                /\ feed = FeedError(postsErr)
    /\ siteTable # NilNode =>
          /\ IsSiteTableDiv(siteTable)
          /\ \A a \in Ancestors(siteTable) : ~IsElement(a, "head")
    /\ pc \in {"loop", "nextPageLink", "panic"} => ContainerOutsideHead

\* getFeedPosts returned the error although a <div id="siteTable"> exists
C4_Witness ==
    /\ PostsReturned
    /\ postsErr # None
    /\ \E p \in Ptrs : IsSiteTableDiv(p)

\* child p of the container is due a record
Qualifies(p) == NodeAt(doc, p).Type = "ElementNode" /\ ~HasSkipMarker(p)

\* the subtree of p holds no <a> element
NoAnchors(p) == \A q \in Ptrs : IsPrefix(p, q) => ~IsElement(q, "a")

\* C5: the posts getFeedPosts returns are one record for each element child
\* of the container without a skip marker, in the children's order; a child
\* without any anchor gives a record with empty Title, ThumbnailLink and
\* CommentsLink.
C5_OneRecordPerChild ==
    (PostsReturned /\ postsErr = None) =>
        /\ srcs = SelectSeq(Children(siteTable), Qualifies)
        /\ Len(posts) = Len(srcs)
        /\ \A i \in DOMAIN posts :
              /\ posts[i].ID = GetAttribute(srcs[i], "data-fullname").val
              /\ NoAnchors(srcs[i]) =>
                    /\ posts[i].Title = ""
                    /\ posts[i].ThumbnailLink = ""
                    /\ posts[i].CommentsLink = ""

\* posts were returned for a container with a child that is due none, the
\* last record from a child without anchors
C5_Witness ==
    /\ PostsReturned
    /\ postsErr = None
    /\ Len(posts) >= 1
    /\ Len(posts) < Len(NodeAt(doc, siteTable).Kids)
    /\ NoAnchors(srcs[Len(srcs)])

\* C6: a child of the container with a skip marker gives no record, and
\* neither an error nor a panic comes of it.
C6_SkipCompleteness ==
    siteTable # NilNode =>
        \A i \in DOMAIN Children(siteTable) :
            HasSkipMarker(Children(siteTable)[i]) =>
                /\ \A k \in DOMAIN srcs : srcs[k] # Children(siteTable)[i]
                /\ c > i => postsErr \in {"running", None}
                /\ (pc = "panic" /\ postsErr = "running") => c # i

\* the loop has gone past a child with the advertisement marker and a
\* malformed attribute, and has produced a record from another child
C6_Witness ==
    /\ siteTable # NilNode
    /\ Len(posts) >= 1
    /\ \E i \in DOMAIN Children(siteTable) :
          /\ c > i
          /\ GetAttribute(Children(siteTable)[i], "data-adserver-impression-id").ok
          /\ GetAttribute(Children(siteTable)[i], "data-score").ok

\* tryParseFeedPost is over
PostDone == outcome \notin {"idle", "running"}

\* C7: for a child without a skip marker, whatever its subtree,
\* tryParseFeedPost returns a record.
C7_LookupFailuresContained ==
    (PostDone /\ ~HasSkipMarker(n)) => outcome = "post"

\* C8: when the container is found and no child gives a post, Feed does not
\* index past the end of posts.
C8_EmptyPostsGuarded ==
    (PostsReturned /\ postsErr = None /\ Len(posts) = 0) => pc # "panic"

\* C9: the Type of a record follows from its PostLink alone, by the first
\* rule that matches: prefix "/r/" text; suffix ".jpg" or ".png" image; prefix
\* "https://www.reddit.com/gallery/" gallery; prefix "https://v.reddit.com/"
\* or "https://v.redd.it/" video; otherwise link.
C9_ClassificationRules ==
    outcome = "post" =>
        LET u == post.PostLink
            text == HasPrefix(u, "/r/")
            image == HasSuffix(u, ".jpg") \/ HasSuffix(u, ".png")
            gallery == HasPrefix(u, "https://www.reddit.com/gallery/")
            video == HasPrefix(u, "https://v.reddit.com/") \/ HasPrefix(u, "https://v.redd.it/")
        IN  /\ post.Type = "FeedPostTypeText" <=> text
            /\ post.Type = "FeedPostTypeImage" <=> (~text /\ image)
            /\ post.Type = "FeedPostTypeGallery" <=> (~text /\ ~image /\ gallery)
            /\ post.Type = "FeedPostTypeVideo" <=> (~text /\ ~image /\ ~gallery /\ video)
            /\ post.Type = "FeedPostTypeLink" <=> (~text /\ ~image /\ ~gallery /\ ~video)

\* a record whose link matches the text rule and the image rule
C9_Witness ==
    /\ outcome = "post"
    /\ HasPrefix(post.PostLink, "/r/")
    /\ HasSuffix(post.PostLink, ".png")
    /\ post.ID = "t3_abc"

IntOK(v) == ParseInt(v).err = None

BoolOK(v) == ParseBool(v).err = None

AnyOK(v) == TRUE

\* the index of the last attribute of p with this key and a value that
\* parses, 0 when there is none
LastGood(p, key, OK(_)) ==
    LET idx == {i \in DOMAIN Attrs(p) : Attrs(p)[i].Key = key /\ OK(Attrs(p)[i].Val)}
    IN  IF idx = {} THEN 0 ELSE CHOOSE i \in idx : \A k \in idx : k <= i

\* the value of that attribute
LastGoodVal(p, key, OK(_)) == Attrs(p)[LastGood(p, key, OK)].Val

\* an attribute of one of the five typed fields whose value does not parse
Malformed(attr) ==
    \/ attr.Key \in {"data-timestamp", "data-score", "data-comments-count"} /\ ~IntOK(attr.Val)
    \/ attr.Key \in {"data-spoiler", "data-nsfw"} /\ ~BoolOK(attr.Val)

ThumbnailAnchorOf(p) ==
    BreadthFirstSearch(p, And(IsTag("a"), HasAttributeWithValueRegex("class", "thumbnail")),
                       RecurseAlways)

\* the <img> with a src in the subtree of anchor a
ThumbnailImgOf(a) ==
    BreadthFirstSearch(a, And(IsTag("img"), HasAttribute("src")), RecurseAlways)

\* src with a leading "//" replaced by "https://"
LeadingSlashesReplaced(src) ==
    IF HasPrefix(src, "//") THEN "https://" \o SubSeq(src, 3, Len(src)) ELSE src

\* C11: ThumbnailLink is empty when there is no thumbnail anchor or no image
\* with a src in it, and otherwise is the src with a leading "//" replaced by
\* "https://", whatever the src.
C11_ThumbnailLink ==
    outcome = "post" =>
        IF ThumbnailAnchorOf(n).err # None THEN post.ThumbnailLink = ""
        ELSE IF ThumbnailImgOf(ThumbnailAnchorOf(n).node).err # None
             THEN post.ThumbnailLink = ""
             ELSE post.ThumbnailLink = LeadingSlashesReplaced(
                      GetAttribute(ThumbnailImgOf(ThumbnailAnchorOf(n).node).node, "src").val)

\* C12: the CommentCount of a record is not negative.
C12_CommentCountNonNegative ==
    outcome = "post" => post.CommentCount >= 0

\* C16: when the next page link of a Feed is requested, the options parsed
\* from the request have the subreddit and the sort method of the options the
\* Feed was made with, and the ID of the Feed's last post as LastPostID.
C16_NextPageRoundTrip ==
    pc = "nextRequest" =>
        /\ options.err = None
        /\ options.opts.Subreddit = opts.Subreddit
        /\ options.opts.SortMethod = opts.SortMethod
        /\ options.opts.LastPostID = StringPtr(posts[Len(posts)].ID)

====
